---- MODULE Spec2Model ----
(***************************************************************************)
(* DevGuardian (src/devguardian_fixed.py): the analyzers that inspect a    *)
(* project directory (DocumentChecker, TodoTracker, DependencyChecker,     *)
(* SecurityScanner), the aggregator DevGuardianScanner.scan that turns     *)
(* their results into a health report, and the command-line entry point    *)
(* that imports the module, builds the scanner and runs the scan.          *)
(*                                                                         *)
(* Text is modelled as tuples of one-character strings so that Python's    *)
(* substring tests and string ordering are computed, not assumed.          *)
(* Python floats are modelled exactly in hundredths: every value the       *)
(* health formula can produce is a multiple of 0.2.                        *)
(***************************************************************************)
EXTENDS Integers, Sequences, FiniteSets, TLC

VARIABLES
    fs,      \* the project directory the scanner was pointed at
    aiEnv,   \* the AI collaborator's environment (package, key, service)
    pc,      \* "ready", or the operation that has returned / how the run ended
    ret      \* the value the operation returned (NoValue before any call)

vars == <<fs, aiEnv, pc, ret>>

NoValue == [none |-> TRUE]
None == "None"

(***************************************************************************)
(* Strings                                                                 *)
(***************************************************************************)

\* The characters that occur in the modelled paths, in code-point order.
Alphabet == <<".", "/", "_", "a", "b", "c", "d", "e", "f", "g", "h", "i", "j",
              "k", "l", "m", "n", "o", "p", "q", "r", "s", "t", "u", "v", "w",
              "x", "y", "z">>

Code(c) == CHOOSE i \in 1..Len(Alphabet) : Alphabet[i] = c

\* Python's str < str: lexicographic by code point, a proper prefix is smaller.
RECURSIVE StrLess(_, _)
StrLess(a, b) ==
    IF b = <<>> THEN FALSE
    ELSE IF a = <<>> THEN TRUE
    ELSE IF Code(Head(a)) < Code(Head(b)) THEN TRUE
    ELSE IF Code(Head(a)) > Code(Head(b)) THEN FALSE
    ELSE StrLess(Tail(a), Tail(b))

StrLeq(a, b) == a = b \/ StrLess(a, b)

\* Python's `sub in s`.
Contains(s, sub) ==
    \E i \in 0..(Len(s) - Len(sub)) : SubSeq(s, i + 1, i + Len(sub)) = sub

EndsWith(s, suffix) ==
    /\ Len(s) >= Len(suffix)
    /\ SubSeq(s, Len(s) - Len(suffix) + 1, Len(s)) = suffix

\* Path.name: what follows the last "/".
RECURSIVE BaseName(_)
BaseName(p) ==
    IF \A i \in 1..Len(p) : p[i] # "/" THEN p
    ELSE BaseName(Tail(p))

\* list[:n]
Take(s, n) == SubSeq(s, 1, IF Len(s) < n THEN Len(s) ELSE n)

Min(a, b) == IF a <= b THEN a ELSE b
Max(a, b) == IF a >= b THEN a ELSE b

RECURSIVE Concat(_)
Concat(ss) == IF ss = <<>> THEN <<>> ELSE Head(ss) \o Concat(Tail(ss))

(***************************************************************************)
(* DocumentChecker                                                         *)
(***************************************************************************)

ReadmePatterns == <<"README.md", "README.rst", "README.txt", "readme.md">>
LicensePatterns == <<"LICENSE", "LICENSE.md", "license", "license.txt">>
Expected == <<"installation", "usage", "license">>

AbsentFile == [st |-> "absent"]
UnreadableFile == [st |-> "unreadable"]

\* A readable README: its whitespace-separated word count, its headings
\* (each heading given by the expected words its lower-cased title contains)
\* and whether the text contains "[![".
ReadmeFile(words, headings, badge) ==
    [st |-> "ok", words |-> words, headings |-> headings, badge |-> badge]

ReadmeNotFound ==
    [exists |-> FALSE, file |-> None, score |-> 0, missing |-> Expected, words |-> 0]

\* expected sections with no heading containing them, in `expected` order
Missing(headings) ==
    SelectSeq(Expected, LAMBDA s : ~ \E h \in headings : s \in h)

\* a tier boundary taken strictly
WordTier_Strict(words) == IF words > 200 THEN 20 ELSE IF words > 100 THEN 10 ELSE 0

WordTier(words) == IF words >= 200 THEN 20 ELSE IF words >= 100 THEN 10 ELSE 0

SectionCredit(missing) == (40 * (Len(Expected) - Len(missing))) \div Len(Expected)

ReadmeScore(words, missing, badge) ==
    Min(100, 20 + WordTier(words) + SectionCredit(missing) + (IF badge THEN 20 ELSE 0))

\* the loop left with the not-found result when the read raises
RECURSIVE CheckReadmeFrom_StopOnFailure(_, _)
CheckReadmeFrom_StopOnFailure(d, i) ==
    IF i > Len(ReadmePatterns) THEN ReadmeNotFound
    ELSE LET p == ReadmePatterns[i]
             f == d.readmes[p]
         IN IF d.kind = "dir" /\ f.st = "ok"
            THEN LET missing == Missing(f.headings)
                 IN [exists |-> TRUE, file |-> p,
                     score |-> ReadmeScore(f.words, missing, f.badge),
                     missing |-> missing, words |-> f.words]
            ELSE IF d.kind = "dir" /\ f.st = "unreadable" THEN ReadmeNotFound
            ELSE CheckReadmeFrom_StopOnFailure(d, i + 1)

\* The loop over the candidates from index i on: a candidate that exists and
\* is read returns; one whose read raises is passed over (`except: pass`
\* sits inside the loop) and the next candidate is tried.
RECURSIVE CheckReadmeFrom(_, _)
CheckReadmeFrom(d, i) ==
    IF i > Len(ReadmePatterns) THEN ReadmeNotFound
    ELSE LET p == ReadmePatterns[i]
             f == d.readmes[p]
         IN IF d.kind = "dir" /\ f.st = "ok"
            THEN LET missing == Missing(f.headings)
                 IN [exists |-> TRUE, file |-> p,
                     score |-> ReadmeScore(f.words, missing, f.badge),
                     missing |-> missing, words |-> f.words]
            ELSE CheckReadmeFrom(d, i + 1)

check_readme(d) == CheckReadmeFrom(d, 1)

RECURSIVE CheckLicenseFrom(_, _)
CheckLicenseFrom(d, i) ==
    IF i > Len(LicensePatterns) THEN [exists |-> FALSE, file |-> None]
    ELSE IF d.kind = "dir" /\ LicensePatterns[i] \in d.licenses
         THEN [exists |-> TRUE, file |-> LicensePatterns[i]]
         ELSE CheckLicenseFrom(d, i + 1)

check_license(d) == CheckLicenseFrom(d, 1)

(***************************************************************************)
(* The directory tree                                                      *)
(***************************************************************************)

\* str(self.path / rel): the resolved root, a separator, the relative path.
FullPath(d, e) == d.root \o <<"/">> \o e.path

\* Path.rglob: the entries below the root whose name matches, in the order
\* the operating system lists them (the order of d.tree); nothing when the
\* root is missing or is not a directory.
RGlobExt(d, ext) ==
    IF d.kind = "dir" THEN SelectSeq(d.tree, LAMBDA e : EndsWith(BaseName(e.path), ext))
    ELSE <<>>

RGlobName(d, pattern) ==
    IF d.kind = "dir" THEN SelectSeq(d.tree, LAMBDA e : BaseName(e.path) = pattern)
    ELSE <<>>

DotGit == <<".", "g", "i", "t">>
NodeModules == <<"n", "o", "d", "e", "_", "m", "o", "d", "u", "l", "e", "s">>
PyCache == <<"_", "_", "p", "y", "c", "a", "c", "h", "e", "_", "_">>

(***************************************************************************)
(* TodoTracker                                                             *)
(***************************************************************************)

Kinds == <<"BUG", "FIXME", "TODO", "HACK">>
CommentMarks == <<"#", "//">>
Priority(kind) == CHOOSE i \in 1..Len(Kinds) : Kinds[i] = kind

TodoExtensions ==
    << <<".", "p", "y">>, <<".", "j", "s">>, <<".", "t", "s">>,
       <<".", "j", "a", "v", "a">>, <<".", "g", "o">>, <<".", "r", "s">>,
       <<".", "c">>, <<".", "c", "p", "p">>, <<".", "p", "h", "p">>,
       <<".", "r", "b">> >>

TodoFileCap == 50
TodoExcluded == <<DotGit, NodeModules, PyCache>>

\* A line is the sequence of its tagged comment markers, left to right; a
\* marker carries its comment sign, its keyword and whether text other than
\* whitespace follows it before the next marker.
Marker(cm, kind, text) == [cm |-> cm, kind |-> kind, text |-> text]

\* One pattern on one line: `(.+)` runs to the end of the line, so finditer
\* yields at most one match, at the first marker of that sign and keyword;
\* the captured text is everything after it, stripped.
PatternItems(path, lineNum, line, kind, cm) ==
    LET hits == {i \in 1..Len(line) : line[i].kind = kind /\ line[i].cm = cm}
    IN IF hits = {} THEN <<>>
       ELSE LET i == CHOOSE j \in hits : \A k \in hits : j <= k
                text == <<line[i].text>> \o
                        [k \in 1..(Len(line) - i) |-> line[i + k].kind]
            IN IF line[i].text = "" /\ i = Len(line) THEN <<>>
               ELSE << [type |-> kind, text |-> text, file |-> path,
                        line |-> lineNum, priority |-> Priority(kind)] >>

LineItems(path, lineNum, line) ==
    Concat([k \in 1..Len(Kinds) |->
        Concat([c \in 1..Len(CommentMarks) |->
            PatternItems(path, lineNum, line, Kinds[k], CommentMarks[c])])])

FileItems(d, e) ==
    Concat([n \in 1..Len(e.lines) |-> LineItems(FullPath(d, e), n, e.lines[n])])

TodoSkipped(d, e) == \E x \in 1..Len(TodoExcluded) : Contains(FullPath(d, e), TodoExcluded[x])

\* the loop over the files left at the first read that raises
ExtensionItems_AbortOnFailure(d, ext) ==
    LET files == Take(RGlobExt(d, ext), TodoFileCap)
        bad == {i \in 1..Len(files) : ~TodoSkipped(d, files[i]) /\ ~files[i].readable}
    IN Concat([i \in 1..Len(files) |->
            IF TodoSkipped(d, files[i]) \/ (\E b \in bad : b <= i) THEN <<>>
            ELSE FileItems(d, files[i])])

\* The body of the two loops for one extension: the first 50 matches, those
\* on an excluded path skipped, those whose read raises skipped.
ExtensionItems(d, ext) ==
    LET files == Take(RGlobExt(d, ext), TodoFileCap)
    IN Concat([i \in 1..Len(files) |->
            IF TodoSkipped(d, files[i]) \/ ~files[i].readable THEN <<>>
            ELSE FileItems(d, files[i])])

\* the sort key without the file path
KeyLeq_PriorityOnly(a, b) == a.priority <= b.priority

\* Python's tuple comparison of the sort keys (priority, file).
KeyLeq(a, b) ==
    \/ a.priority < b.priority
    \/ a.priority = b.priority /\ StrLeq(a.file, b.file)

\* sorted(): stable, so an item goes after every item whose key is <= its own.
RECURSIVE InsertSorted(_, _)
InsertSorted(sorted, x) ==
    IF sorted = <<>> THEN <<x>>
    ELSE IF KeyLeq(Head(sorted), x) THEN <<Head(sorted)>> \o InsertSorted(Tail(sorted), x)
    ELSE <<x>> \o sorted

RECURSIVE SortedByKey(_)
SortedByKey(items) ==
    IF items = <<>> THEN <<>>
    ELSE InsertSorted(SortedByKey(SubSeq(items, 1, Len(items) - 1)), items[Len(items)])

find_todos(d) ==
    SortedByKey(Concat([x \in 1..Len(TodoExtensions) |-> ExtensionItems(d, TodoExtensions[x])]))

\* by_type is a dict filled in list order: its keys in order of first
\* appearance, each with its count.
RECURSIVE ByType(_)
ByType(todos) ==
    IF todos = <<>> THEN <<>>
    ELSE LET before == ByType(SubSeq(todos, 1, Len(todos) - 1))
             t == todos[Len(todos)].type
         IN IF \E i \in 1..Len(before) : before[i][1] = t
            THEN [i \in 1..Len(before) |->
                    IF before[i][1] = t THEN <<t, before[i][2] + 1>> ELSE before[i]]
            ELSE Append(before, <<t, 1>>)

get_summary(todos) ==
    [total |-> Len(todos), by_type |-> ByType(todos),
     files |-> Cardinality({todos[i].file : i \in 1..Len(todos)})]

(***************************************************************************)
(* DependencyChecker                                                       *)
(***************************************************************************)

\* (self.path / name).exists() for the marker files at the root.
RootHas(d, name) ==
    /\ d.kind = "dir"
    /\ \/ name \in d.markers
       \/ name = "requirements.txt" /\ d.requirements.st # "absent"
       \/ name = "package.json" /\ d.package.st # "absent"

LanguagePatterns ==
    << <<"python", {"requirements.txt", "setup.py", "pyproject.toml"}>>,
       <<"nodejs", {"package.json"}>>,
       <<"go", {"go.mod"}>>,
       <<"java", {"pom.xml", "build.gradle"}>>,
       <<"rust", {"Cargo.toml"}>> >>

detect_languages(d) ==
    LET found == SelectSeq(LanguagePatterns, LAMBDA lp : \E f \in lp[2] : RootHas(d, f))
        langs == [i \in 1..Len(found) |-> found[i][1]]
    IN IF langs # <<>> THEN langs ELSE <<"unknown">>

NoDeps == [total |-> 0, deps |-> <<>>, file |-> None]
DepsShown == 10

\* A requirements line is a sequence of tokens: " " for a run of whitespace,
\* "#", a package name, a specifier ("==", ">=", "<=", "~=") or a version.
RECURSIVE LStrip(_)
LStrip(line) ==
    IF line # <<>> /\ Head(line) = " " THEN LStrip(Tail(line)) ELSE line

RECURSIVE RStrip(_)
RStrip(line) ==
    IF line # <<>> /\ line[Len(line)] = " " THEN RStrip(SubSeq(line, 1, Len(line) - 1))
    ELSE line

Strip(line) == RStrip(LStrip(line))

\* s.split(sep)[0]
RECURSIVE BeforeFirst(_, _)
BeforeFirst(line, sep) ==
    IF line = <<>> \/ Head(line) = sep THEN <<>>
    ELSE <<Head(line)>> \o BeforeFirst(Tail(line), sep)

DepName(line) == BeforeFirst(BeforeFirst(BeforeFirst(Strip(line), "=="), ">="), "<=")

\* the filter tests the stripped line for emptiness but the raw line for "#"
KeepsLine(line) == Strip(line) # <<>> /\ Head(line) # "#"

check_python(d) ==
    IF RootHas(d, "requirements.txt") /\ d.requirements.st = "ok"
    THEN LET kept == SelectSeq(d.requirements.lines, KeepsLine)
             deps == [i \in 1..Len(kept) |-> DepName(kept[i])]
         IN [total |-> Len(deps), deps |-> Take(deps, DepsShown), file |-> "requirements.txt"]
    ELSE NoDeps

\* A JSON value of package.json: an object gives each of the two fields as
\* missing, as an object (its keys in file order) or as some other value.
JsonMissing == [type |-> "missing"]
JsonOther == [type |-> "other"]
JsonObject(keys) == [type |-> "object", keys |-> keys]

\* data.get(field, {}).keys(): raises unless the value is an object
KeysOf(v) == IF v.type = "missing" THEN <<>> ELSE v.keys

check_nodejs(d) ==
    IF /\ RootHas(d, "package.json")
       /\ d.package.st = "ok"
       /\ d.package.data.type = "object"
       /\ d.package.data.dependencies.type # "other"
       /\ d.package.data.devDependencies.type # "other"
    THEN LET deps == KeysOf(d.package.data.dependencies)
                     \o KeysOf(d.package.data.devDependencies)
         IN [total |-> Len(deps), deps |-> Take(deps, DepsShown), file |-> "package.json"]
    ELSE NoDeps

(***************************************************************************)
(* SecurityScanner                                                         *)
(***************************************************************************)

SensitiveFiles ==
    << <<".", "e", "n", "v">>,
       <<".", "e", "n", "v", ".", "l", "o", "c", "a", "l">>,
       <<"i", "d", "_", "r", "s", "a">>,
       <<"i", "d", "_", "d", "s", "a">>,
       <<"c", "o", "n", "f", "i", "g", ".", "j", "s", "o", "n">>,
       <<"s", "e", "c", "r", "e", "t", "s", ".", "j", "s", "o", "n">> >>

SecurityExtensions ==
    << <<".", "p", "y">>, <<".", "j", "s">>, <<".", "t", "s">>,
       <<".", "j", "a", "v", "a">>, <<".", "y", "a", "m", "l">>,
       <<".", "y", "m", "l">> >>

SecurityFileCap == 20
SecurityExcluded == <<DotGit, NodeModules>>
SecretKinds == <<"password", "API key", "secret">>
IssuesShown == 5
IssuePenalty == 15

\* the first loop: every match of every sensitive name, off version control
SensitiveIssues(d) ==
    Concat([i \in 1..Len(SensitiveFiles) |->
        LET hits == SelectSeq(RGlobName(d, SensitiveFiles[i]),
                              LAMBDA e : ~Contains(FullPath(d, e), DotGit))
        IN [k \in 1..Len(hits) |->
                [issue |-> "Sensitive file", name |-> BaseName(hits[k].path)]]])

CodeFiles(d) ==
    Concat([i \in 1..Len(SecurityExtensions) |->
        Take(RGlobExt(d, SecurityExtensions[i]), SecurityFileCap)])

\* A file's secrets are the regex matches in text order, each with its kind
\* and whether the captured value is on the placeholder list.
Secret(kind, placeholder) == [kind |-> kind, placeholder |-> placeholder]

FileSecretIssues(e) ==
    Concat([k \in 1..Len(SecretKinds) |->
        LET hits == SelectSeq(e.secrets,
                              LAMBDA m : m.kind = SecretKinds[k] /\ ~m.placeholder)
        IN [j \in 1..Len(hits) |->
                [issue |-> "Potential", desc |-> SecretKinds[k],
                 name |-> BaseName(e.path)]]])

SecuritySkipped(d, e) ==
    \E x \in 1..Len(SecurityExcluded) : Contains(FullPath(d, e), SecurityExcluded[x])

PatternIssues(d) ==
    LET files == CodeFiles(d)
    IN Concat([i \in 1..Len(files) |->
            IF SecuritySkipped(d, files[i]) \/ ~files[i].readable THEN <<>>
            ELSE FileSecretIssues(files[i])])

AllIssues(d) == SensitiveIssues(d) \o PatternIssues(d)

\* the score taken over the list as shown
SecurityScore_Shown(issues) == Max(0, 100 - Len(Take(issues, IssuesShown)) * IssuePenalty)

SecurityScore(issues) == Max(0, 100 - Len(issues) * IssuePenalty)

security_scan(d) ==
    LET issues == AllIssues(d)
    IN [score |-> SecurityScore(issues), issues |-> Take(issues, IssuesShown)]

(***************************************************************************)
(* DevGuardianScanner.scan                                                 *)
(***************************************************************************)

ItemsShown == 10

\* the work-item term as a penalty instead of a credit
TodoCredit_Penalty(total) == Min(total * 2, 40)

\* health_score in hundredths: readme score * 0.4, 20 for a license, and 40
\* less two per work item.
TodoCredit(total) == Max(0, 40 - Min(total * 2, 40))

\* the work-item term taken over the items as shown
HealthScore_Shown(readme, license, summary) ==
    Min(10000, 40 * readme.score + (IF license.exists THEN 2000 ELSE 0)
               + 100 * Max(0, 40 - Min(Min(summary.total, ItemsShown) * 2, 40)))

\* the README weighted 0.5 instead of 0.4
HealthScore_ReadmeHalf(readme, license, summary) ==
    Min(10000, 50 * readme.score + (IF license.exists THEN 2000 ELSE 0)
               + 100 * TodoCredit(summary.total))

HealthScore(readme, license, summary) ==
    Min(10000, 40 * readme.score + (IF license.exists THEN 2000 ELSE 0)
               + 100 * TodoCredit(summary.total))

\* the thresholds taken strictly
Grade_Strict(health) ==
    IF health > 9000 THEN "A" ELSE IF health > 8000 THEN "B"
    ELSE IF health > 7000 THEN "C" ELSE IF health > 6000 THEN "D" ELSE "F"

Grade(health) ==
    IF health >= 9000 THEN "A" ELSE IF health >= 8000 THEN "B"
    ELSE IF health >= 7000 THEN "C" ELSE IF health >= 6000 THEN "D" ELSE "F"

\* round(x, 1) of a value given in hundredths, in tenths (ties to even)
Round1(h) ==
    LET q == h \div 10
        r == h % 10
    IN IF r < 5 THEN q ELSE IF r > 5 THEN q + 1
       ELSE IF q % 2 = 0 THEN q ELSE q + 1

\* the four tests chained with elif
Badges_FirstOnly(readme, summary, security, health) ==
    IF readme.exists /\ readme.score >= 80 THEN <<"Documentation Master">>
    ELSE IF summary.total = 0 THEN <<"Clean Code Champion">>
    ELSE IF security.score >= 95 THEN <<"Security Champion">>
    ELSE IF health >= 9000 THEN <<"Project Excellence">>
    ELSE <<>>

Badges(readme, summary, security, health) ==
    (IF readme.exists /\ readme.score >= 80 THEN <<"Documentation Master">> ELSE <<>>)
    \o (IF summary.total = 0 THEN <<"Clean Code Champion">> ELSE <<>>)
    \o (IF security.score >= 95 THEN <<"Security Champion">> ELSE <<>>)
    \o (IF health >= 9000 THEN <<"Project Excellence">> ELSE <<>>)

scan(d, elapsed) ==
    LET readme == check_readme(d)
        license_info == check_license(d)
        todos == find_todos(d)
        todo_summary == get_summary(todos)
        languages == detect_languages(d)
        security == security_scan(d)
        health_score == HealthScore(readme, license_info, todo_summary)
    IN [project |-> BaseName(d.root),
        languages |-> languages,
        scan_time |-> elapsed,
        health_score |-> [score |-> Round1(health_score), grade |-> Grade(health_score)],
        badges |-> Badges(readme, todo_summary, security, health_score),
        readme |-> readme,
        license |-> license_info,
        todos |-> [items |-> Take(todos, ItemsShown), summary |-> todo_summary],
        security |-> security,
        dependencies |->
            [python |-> IF \E i \in 1..Len(languages) : languages[i] = "python"
                        THEN check_python(d) ELSE NoValue,
             nodejs |-> IF \E i \in 1..Len(languages) : languages[i] = "nodejs"
                        THEN check_nodejs(d) ELSE NoValue]]

(***************************************************************************)
(* Project directories                                                     *)
(***************************************************************************)

MaxWords == 201        \* README word counts range over 0..MaxWords
BigFileLines == 12     \* lines of the large source file
HugeFileLines == 21    \* lines of the very large source file
MaxSecrets == 7        \* secrets in the configuration file
MaxScanTime == 1       \* elapsed time of a scan, in hundredths of a second

RootPath == <<"/", "p">>

File(path, readable, lines, secrets) ==
    [path |-> path, readable |-> readable, lines |-> lines, secrets |-> secrets]

P_a_py == <<"a", ".", "p", "y">>
P_b_py == <<"b", ".", "p", "y">>
P_c_js == <<"c", ".", "j", "s">>
P_u_py == <<"u", ".", "p", "y">>
P_big_js == <<"b", "i", "g", ".", "j", "s">>
P_nm_m_js == <<"n", "o", "d", "e", "_", "m", "o", "d", "u", "l", "e", "s", "/", "m", ".", "j", "s">>
P_env == <<".", "e", "n", "v">>
P_s_env == <<"s", "/", ".", "e", "n", "v">>
P_config == <<"c", "o", "n", "f", "i", "g", ".", "j", "s", "o", "n">>
P_git_config == <<".", "g", "i", "t", "/", "c", "o", "n", "f", "i", "g", ".", "j", "s", "o", "n">>
P_s_c_js == <<"s", "/", "c", ".", "j", "s">>
P_k_yml == <<"k", ".", "y", "m", "l">>

Todo(kind) == <<Marker("#", kind, "x")>>

SmallSources ==
    << File(P_b_py, TRUE, <<Todo("TODO"), <<Marker("//", "HACK", "x"), Marker("#", "BUG", "x")>> >>, <<>>),
       File(P_a_py, TRUE, <<Todo("FIXME"), Todo("TODO")>>, <<>>) >>

BigSource(n) == File(P_big_js, TRUE, [i \in 1..n |-> Todo("TODO")], <<>>)

\* The source files of a project, in the order rglob walks them: the files
\* of a directory before those of its subdirectories, the entries of one
\* directory in the order the system lists them.
TodoGroups ==
    { <<>>,
      SmallSources,
      SmallSources \o <<File(P_c_js, TRUE, <<Todo("HACK")>>, <<>>)>>,
      <<BigSource(BigFileLines)>> \o SmallSources,
      <<BigSource(HugeFileLines)>>,
      <<File(P_u_py, FALSE, <<Todo("BUG")>>, <<Secret("password", FALSE)>>)>> \o SmallSources,
      << File(P_c_js, TRUE, << <<Marker("//", "TODO", "")>>, <<>> >>, <<>>),
         File(P_u_py, FALSE, <<Todo("BUG")>>, <<>>),
         File(P_nm_m_js, TRUE, <<Todo("BUG")>>, <<>>) >> }

SensitiveEntries ==
    << File(P_env, TRUE, <<>>, <<>>), File(P_s_env, TRUE, <<>>, <<>>),
       File(P_config, FALSE, <<>>, <<>>) >>

ConfigFile(n) ==
    File(P_k_yml, TRUE, <<>>,
         <<Secret("secret", FALSE), Secret("password", TRUE)>>
         \o [i \in 1..(n - 1) |-> Secret(IF i % 2 = 0 THEN "API key" ELSE "password", FALSE)])

\* The sensitive and configuration files of a project: s sensitive files and
\* a configuration file with n real secrets and one placeholder.
SecurityGroup(s, n) ==
    Take(SensitiveEntries, s) \o (IF n > 0 THEN <<ConfigFile(n)>> ELSE <<>>)

SecurityGroups ==
    { SecurityGroup(0, 0), SecurityGroup(1, 0), SecurityGroup(2, 1),
      SecurityGroup(3, 3), SecurityGroup(3, MaxSecrets),
      <<File(P_git_config, TRUE, <<>>, <<>>)>> }

HeadingTitles ==
    {{}, {"installation"}, {"usage"}, {"license"}, {"installation", "usage"}}

ReadmeContents(wordCounts, headingSets) ==
    {ReadmeFile(w, h, b) : w \in wordCounts, h \in headingSets, b \in BOOLEAN}

NoReadmes == [p \in {ReadmePatterns[i] : i \in 1..Len(ReadmePatterns)} |-> AbsentFile]

\* Which candidate names exist, given one readable README `c`.
ReadmeLayouts(c) ==
    {[NoReadmes EXCEPT ![ReadmePatterns[i]] = c] : i \in 1..Len(ReadmePatterns)}
    \cup {[NoReadmes EXCEPT !["README.md"] = UnreadableFile, !["README.txt"] = c],
          [NoReadmes EXCEPT !["README.rst"] = c,
                            !["readme.md"] = ReadmeFile(0, {}, FALSE)]}

Requirements(lines) == [st |-> "ok", lines |-> lines]
Package(data) == [st |-> "ok", data |-> data]
PackageObject(deps, dev) ==
    [type |-> "object", dependencies |-> deps, devDependencies |-> dev]

NoDependencyFiles ==
    [markers |-> {}, requirements |-> AbsentFile, package |-> AbsentFile]

DependencyFiles ==
    { NoDependencyFiles,
      [markers |-> {}, package |-> AbsentFile,
       requirements |-> Requirements(<< <<"flask", "==", "1.0">>,
                                        <<" ", "#", " ", "pinned">>,
                                        <<"#", "tools">>,
                                        <<" ">>,
                                        <<"requests", " ", ">=", "2.0", " ">>,
                                        <<"flask">> >>)],
      [markers |-> {"go.mod"}, requirements |-> AbsentFile,
       package |-> Package(PackageObject(JsonObject(<<"express">>),
                                         JsonObject(<<"jest", "express">>)))],
      [markers |-> {"setup.py", "Cargo.toml"}, requirements |-> UnreadableFile,
       package |-> [st |-> "malformed"]] }

\* The i-th file of an installed package tree: node_modules/<name>.js
VendoredFile(i) ==
    File(NodeModules \o <<"/", Alphabet[4 + (i \div 10)], Alphabet[4 + (i % 10)]>>
                     \o <<".", "j", "s">>,
         TRUE, <<Todo("BUG")>>, <<>>)

Vendored(n) == [i \in 1..n |-> VendoredFile(i)]

OwnScript == File(P_s_c_js, TRUE, <<Todo("TODO")>>, <<>>)

\* Trees with an installed package tree as large as the per-extension cap,
\* or one file smaller, walked before or after the directory of the
\* project's own script.
LargeTrees ==
    { Vendored(TodoFileCap) \o <<OwnScript>>,
      <<OwnScript>> \o Vendored(TodoFileCap),
      Vendored(TodoFileCap - 1) \o <<OwnScript>> }

Dir(readmes, licenses, depFiles, tree) ==
    [kind |-> "dir", root |-> RootPath, readmes |-> readmes, licenses |-> licenses,
     markers |-> depFiles.markers, requirements |-> depFiles.requirements,
     package |-> depFiles.package, tree |-> tree]

EmptyDir == Dir(NoReadmes, {}, NoDependencyFiles, <<>>)

\* A root that does not exist, or that is a regular file: nothing is below it.
NotADir(kind) == [EmptyDir EXCEPT !.kind = kind]

ScanReadmes ==
    {NoReadmes, [NoReadmes EXCEPT !["README.md"] = UnreadableFile]}
    \cup {[NoReadmes EXCEPT !["README.md"] = c] :
            c \in ReadmeContents({150, 200},
                                 {{}, {{"installation", "usage"}},
                                  {{"installation"}, {"usage"}, {"license"}}})}

ScanLicenses == {{}, {"license.txt", "LICENSE.md"}}

\* The directories given to the whole scan.
ProjectDirs ==
    {Dir(r, l, dep, t \o sec) :
        r \in ScanReadmes, l \in ScanLicenses, dep \in DependencyFiles,
        t \in TodoGroups, sec \in SecurityGroups}
    \cup {Dir(NoReadmes, l, NoDependencyFiles, t) : l \in ScanLicenses, t \in LargeTrees}
    \cup {NotADir("missing"), NotADir("file")}

\* The module has been imported where the openai package is installed.
Imported == [openai |-> "installed", key |-> FALSE, service |-> "down"]

(***************************************************************************)
(* The operations, each called on the objects built for the directory      *)
(* (lines 240-244 of __init__)                                             *)
(***************************************************************************)

Init ==
    /\ fs \in ProjectDirs
    /\ aiEnv = Imported
    /\ pc = "ready"
    /\ ret = NoValue

Return(op, value) ==
    /\ pc = "ready"
    /\ pc' = op
    /\ ret' = value
    /\ UNCHANGED <<fs, aiEnv>>

CheckReadme == Return("check_readme", check_readme(fs))
CheckLicense == Return("check_license", check_license(fs))
FindTodos == Return("find_todos", find_todos(fs))
GetSummary == Return("get_summary", get_summary(find_todos(fs)))
DetectLanguages == Return("detect_languages", detect_languages(fs))
CheckPython == Return("check_python", check_python(fs))
CheckNodejs == Return("check_nodejs", check_nodejs(fs))
SecurityScan == Return("security_scan", security_scan(fs))
Scan == \E elapsed \in 0..MaxScanTime : Return("scan", scan(fs, elapsed))

Next ==
    \/ CheckReadme
    \/ CheckLicense
    \/ FindTodos
    \/ GetSummary
    \/ DetectLanguages
    \/ CheckPython
    \/ CheckNodejs
    \/ SecurityScan
    \/ Scan

Spec == Init /\ [][Next]_vars

(***************************************************************************)
(* check_readme on its own, over a wider range of READMEs                  *)
(***************************************************************************)

WordSamples ==
    {w \in 0..MaxWords : w < 2 \/ (w >= 99 /\ w <= 101) \/ w >= 199}

ReadmeDirs ==
    {Dir(r, {}, NoDependencyFiles, <<>>) :
        r \in {NoReadmes, [NoReadmes EXCEPT !["README.md"] = UnreadableFile]}
              \cup UNION {ReadmeLayouts(c) :
                            c \in ReadmeContents(WordSamples, SUBSET HeadingTitles)}}

InitReadme ==
    /\ fs \in ReadmeDirs
    /\ aiEnv = Imported
    /\ pc = "ready"
    /\ ret = NoValue

NextReadme == CheckReadme

SpecReadme == InitReadme /\ [][NextReadme]_vars

(***************************************************************************)
(* The command line: import of the module, main(), the constructor         *)
(***************************************************************************)

AiEnvs == [openai : {"installed", "missing"}, key : BOOLEAN, service : {"up", "down"}]

Commands == {"none", "scan", "todos", "ai", "shell"}

\* The names bound at module level when main() runs.
ModuleNames ==
    {"os", "sys", "json", "re", "subprocess", "time", "Path", "Dict", "List", "Any",
     "Optional", "argparse", "requests", "openai", "asyncio", "Colors",
     "print_colored", "print_success", "print_warning", "print_error", "print_info",
     "OpenAIClient", "main", "DocumentChecker", "TodoTracker", "DependencyChecker",
     "SecurityScanner", "DevGuardianScanner"}

\* OpenAIClient.ask_ai: without a key the setup text; with one, the request
\* either fails or returns a completion that cannot be awaited, and both
\* exceptions are turned into the failure text.
ask_ai(env) == IF ~env.key THEN "not configured" ELSE "request failed"

MainDirs ==
    {Dir(r, l, NoDependencyFiles, <<>>) : r \in ScanReadmes, l \in ScanLicenses}
    \cup {NotADir("missing"), NotADir("file")}

InitMain ==
    /\ fs \in MainDirs
    /\ aiEnv \in AiEnvs
    /\ pc = "start"
    /\ ret = NoValue

\* Lines 7-86 run on import: the imports, then asyncio.run(main()) asks the AI.
ImportModule ==
    /\ pc = "start"
    /\ IF aiEnv.openai = "missing"
       THEN pc' = "crashed" /\ ret' = [error |-> "ModuleNotFoundError", command |-> "none"]
       ELSE pc' = "imported" /\ ret' = [printed |-> ask_ai(aiEnv)]
    /\ UNCHANGED <<fs, aiEnv>>

\* main(): without a command the help is printed and main returns.
ParseArgs ==
    /\ pc = "imported"
    /\ \E command \in Commands :
          IF command = "none"
          THEN pc' = "exited" /\ ret' = [printed |-> "help"]
          ELSE pc' = "parsed" /\ ret' = [command |-> command]
    /\ UNCHANGED <<fs, aiEnv>>

\* DevGuardianScanner(args.path), called outside main's try: the last line of
\* __init__ looks up DeepSeekAI.  Were it bound, main would go on to run the
\* command on the scanner.
Construct ==
    /\ pc = "parsed"
    /\ IF "DeepSeekAI" \in ModuleNames
       THEN pc' = "constructed" /\ ret' = ret
       ELSE pc' = "crashed" /\ ret' = [error |-> "NameError", command |-> ret.command]
    /\ UNCHANGED <<fs, aiEnv>>

NextMain ==
    \/ ImportModule
    \/ ParseArgs
    \/ Construct

SpecMain == InitMain /\ [][NextMain]_vars

(***************************************************************************)
(* Properties                                                              *)
(***************************************************************************)

Scanned == pc = "scan"

\* Nothing at the root or below it that the analyzers score: no README, no
\* LICENSE, no dependency marker file, no work item.
Bare(d) ==
    /\ \A i \in 1..Len(ReadmePatterns) : d.readmes[ReadmePatterns[i]].st = "absent"
    /\ d.licenses = {}
    /\ d.markers = {} /\ d.requirements.st = "absent" /\ d.package.st = "absent"
    /\ find_todos(d) = <<>>

\* C1 as stated: a scan of a directory with no README, no LICENSE, no work
\* items and no dependency marker files reports score 0, grade F and no badge.
C1_BareScoresZero ==
    (Scanned /\ Bare(fs)) =>
        /\ ret.health_score.score = 0
        /\ ret.health_score.grade = "F"
        /\ ret.badges = <<>>

\* C1 amended: such a scan reports score 40.0 (the full credit for zero work
\* items), grade F, and the badges Clean Code Champion and, when the security
\* scan found nothing, Security Champion; an empty directory gets both.
C1_BareScoresForty ==
    (Scanned /\ Bare(fs)) =>
        /\ ret.health_score.score = 400
        /\ ret.health_score.grade = "F"
        /\ ret.badges = <<"Clean Code Champion">>
                        \o (IF ret.security.issues = <<>>
                            THEN <<"Security Champion">> ELSE <<>>)
        /\ (fs.tree = <<>> => ret.badges = <<"Clean Code Champion", "Security Champion">>)

C1_Witness ==
    /\ Scanned /\ fs = EmptyDir
    /\ ret.health_score = [score |-> 400, grade |-> "F"]
    /\ Len(ret.badges) = 2

\* The documented health formula, in hundredths, from the three inputs.
Documented(readmeScore, licensed, workItems) ==
    LET backlog == IF 2 * workItems < 40 THEN 2 * workItems ELSE 40
        credit == IF 40 - backlog > 0 THEN 40 - backlog ELSE 0
        sum == 40 * readmeScore + (IF licensed THEN 2000 ELSE 0) + 100 * credit
    IN IF sum < 10000 THEN sum ELSE 10000

\* C2: the reported score (in tenths) is the documented formula over the
\* README score, the license and the count of all work items find_todos
\* returns, rounded to one decimal place, and lies within [0, 100].
C2_HealthFormula ==
    Scanned =>
        LET exact == Documented(check_readme(fs).score, check_license(fs).exists,
                                Len(find_todos(fs)))
            score == ret.health_score.score
        IN /\ 10 * score - exact \in -5..5
           /\ score \in 0..1000
           /\ ret.todos.summary.total = Len(find_todos(fs))

C2_Witness ==
    /\ Scanned
    /\ Len(find_todos(fs)) > Len(ret.todos.items)
    /\ Len(find_todos(fs)) < 20
    /\ ret.readme.exists /\ ret.license.exists

\* C3: the grade follows from the reported score with inclusive lower
\* bounds 90, 80, 70, 60, and exactly one grade is assigned.
C3_GradeThresholds ==
    Scanned =>
        LET s == ret.health_score.score
            g == ret.health_score.grade
        IN /\ g \in {"A", "B", "C", "D", "F"}
           /\ (g = "A") <=> (s >= 900)
           /\ (g = "B") <=> (s >= 800 /\ s < 900)
           /\ (g = "C") <=> (s >= 700 /\ s < 800)
           /\ (g = "D") <=> (s >= 600 /\ s < 700)
           /\ (g = "F") <=> (s < 600)

C3_Witness == Scanned /\ ret.health_score = [score |-> 900, grade |-> "A"]

\* C4: the badge list holds exactly the badges whose own condition holds,
\* each at most once, and no other badge.
C4_BadgeRules ==
    Scanned =>
        LET has(b) == \E i \in 1..Len(ret.badges) : ret.badges[i] = b
        IN /\ has("Documentation Master") <=> (ret.readme.exists /\ ret.readme.score >= 80)
           /\ has("Clean Code Champion") <=> (ret.todos.summary.total = 0)
           /\ has("Security Champion") <=> (ret.security.score >= 95)
           /\ has("Project Excellence") <=> (ret.health_score.score >= 900)
           /\ \A i \in 1..Len(ret.badges) :
                 ret.badges[i] \in {"Documentation Master", "Clean Code Champion",
                                    "Security Champion", "Project Excellence"}
           /\ \A i, j \in 1..Len(ret.badges) : ret.badges[i] = ret.badges[j] => i = j

C4_Witness == Scanned /\ Len(ret.badges) = 4

\* C5: a README that is found and read scores
\* min(100, 20 + word tier + floor(40 * (3 - missing) / 3) + 20 for a badge
\* marker), its missing sections are among the three expected ones, 200
\* words with every section and a badge marker score 100, and the score is
\* never below 20.
C5_ReadmeScore ==
    (pc = "check_readme" /\ ret.exists) =>
        LET f == fs.readmes[ret.file]
            tier == IF ret.words >= 200 THEN 20 ELSE IF ret.words >= 100 THEN 10 ELSE 0
            sum == 20 + tier + ((40 * (3 - Len(ret.missing))) \div 3)
                   + (IF f.badge THEN 20 ELSE 0)
        IN /\ ret.words = f.words
           /\ ret.score = (IF sum < 100 THEN sum ELSE 100)
           /\ \A i \in 1..Len(ret.missing) :
                 ret.missing[i] \in {"installation", "usage", "license"}
           /\ (ret.words = 200 /\ ret.missing = <<>> /\ f.badge) => ret.score = 100
           /\ ret.score >= 20

C5_Witness ==
    /\ pc = "check_readme" /\ ret.exists
    /\ ret.words = 200 /\ ret.missing = <<>> /\ fs.readmes[ret.file].badge
    /\ ret.score = 100

\* C6: the security score is max(0, 100 - 15 n) over all n findings of both
\* checks, the issues listed are the first 5 of them, and sensitive-file
\* findings come before pattern findings.
C6_SecurityScore ==
    (pc = "security_scan") =>
        LET n == Len(SensitiveIssues(fs)) + Len(PatternIssues(fs))
        IN /\ ret.score = (IF 100 - 15 * n > 0 THEN 100 - 15 * n ELSE 0)
           /\ ret.issues = SubSeq(SensitiveIssues(fs) \o PatternIssues(fs), 1,
                                  IF n < 5 THEN n ELSE 5)
           /\ \A i, j \in 1..Len(ret.issues) :
                 (i < j /\ ret.issues[j].issue = "Sensitive file")
                     => ret.issues[i].issue = "Sensitive file"
           /\ (n = 3 => ret.score = 55)
           /\ (n = 10 => ret.score = 0)

C6_Witness ==
    /\ pc = "security_scan"
    /\ Len(AllIssues(fs)) = 6
    /\ Len(ret.issues) = 5 /\ ret.score = 10
    /\ ret.issues[3].issue = "Sensitive file" /\ ret.issues[4].issue = "Potential"

Rank(type) ==
    CASE type = "BUG" -> 1 [] type = "FIXME" -> 2 [] type = "TODO" -> 3 [] type = "HACK" -> 4

InOrder(items) ==
    /\ \A i \in 1..Len(items) : items[i].priority = Rank(items[i].type)
    /\ \A i, j \in 1..Len(items) :
          i < j => \/ items[i].priority < items[j].priority
                   \/ /\ items[i].priority = items[j].priority
                      /\ ~StrLess(items[j].file, items[i].file)

\* C7: what find_todos returns, and the items of a report, are in ascending
\* (priority, file path) order with BUG=1 < FIXME=2 < TODO=3 < HACK=4.
C7_TodosSorted ==
    /\ (pc = "find_todos") => InOrder(ret)
    /\ Scanned => InOrder(ret.todos.items)

C7_Witness ==
    /\ pc = "find_todos"
    /\ Len(ret) >= 5
    /\ \E i, j \in 1..Len(ret) :
          i < j /\ ret[i].priority = ret[j].priority /\ StrLess(ret[i].file, ret[j].file)
    /\ ret # Concat([x \in 1..Len(TodoExtensions) |-> ExtensionItems(fs, TodoExtensions[x])])

\* C8 as stated: when the root does not exist or is not a directory, no scan
\* returns a report.
C8_MissingRootIsFatal == (fs.kind # "dir") => ~Scanned

\* C9 as stated: a run of the scan command on a directory never ends in an
\* error, whatever the state of the AI collaborator: the scanner is
\* constructed and the scan goes ahead.
C9_ScanNeedsNoAI == ~(pc = "crashed" /\ ret.command = "scan" /\ fs.kind = "dir")

NoRepeat(seq) == \A i, j \in 1..Len(seq) : seq[i] = seq[j] => i = j

\* C11 as stated: check_nodejs returns the union of the keys of dependencies
\* and devDependencies: total counts each distinct name once, deps holds at
\* most the first 10 of them, and a package.json that is malformed or not an
\* object gives the empty result.
C11_UnionOfKeys ==
    (pc = "check_nodejs") =>
        IF fs.kind = "dir" /\ fs.package.st = "ok" /\ fs.package.data.type = "object"
           /\ fs.package.data.dependencies.type # "other"
           /\ fs.package.data.devDependencies.type # "other"
        THEN LET deps == KeysOf(fs.package.data.dependencies)
                 dev == KeysOf(fs.package.data.devDependencies)
                 names == {deps[i] : i \in 1..Len(deps)} \cup {dev[i] : i \in 1..Len(dev)}
             IN /\ ret.total = Cardinality(names)
                /\ NoRepeat(ret.deps)
                /\ Len(ret.deps) <= 10
                /\ \A i \in 1..Len(ret.deps) : ret.deps[i] \in names
        ELSE ret = [total |-> 0, deps |-> <<>>, file |-> None]

\* C12 as stated: check_python returns distinct package names with the
\* version specifier stripped: no name twice, at most 10 names, nothing from
\* a comment line (indented or not), and total the count of those packages.
C12_DistinctPackages ==
    (pc = "check_python" /\ fs.kind = "dir" /\ fs.requirements.st = "ok") =>
        LET lines == fs.requirements.lines
            stripped == [i \in 1..Len(lines) |-> Strip(lines[i])]
            packages == {i \in 1..Len(lines) :
                            stripped[i] # <<>> /\ Head(stripped[i]) # "#"}
            names == {Head(stripped[i]) : i \in packages}
        IN /\ NoRepeat(ret.deps)
           /\ Len(ret.deps) <= 10
           /\ \A i \in 1..Len(ret.deps) : Head(ret.deps[i]) # "#"
           /\ \A i \in 1..Len(ret.deps) :
                 \A k \in 1..Len(ret.deps[i]) : ret.deps[i][k] \notin {"==", ">=", "<="}
           /\ ret.total = Cardinality(names)

\* the candidates, in order, whose file is in one of the given states
Candidates(d, states) ==
    SelectSeq(ReadmePatterns, LAMBDA p : d.readmes[p].st \in states)

NotFoundResult ==
    [exists |-> FALSE, file |-> None, score |-> 0,
     missing |-> <<"installation", "usage", "license">>, words |-> 0]

\* C13 as stated: check_readme takes the first candidate that exists, and
\* when reading it fails returns the not-found result, not the result for a
\* later candidate.
C13_FirstExistingOrNotFound ==
    (pc = "check_readme") =>
        LET existing == Candidates(fs, {"ok", "unreadable"})
        IN IF existing = <<>> \/ fs.readmes[Head(existing)].st = "unreadable"
           THEN ret = NotFoundResult
           ELSE ret.exists /\ ret.file = Head(existing)

\* C13 amended: check_readme returns the result for the first candidate, in
\* the order README.md, README.rst, README.txt, readme.md, that exists and
\* can be read; a candidate whose read fails is passed over, and the
\* not-found result is returned only when no candidate can be read.
C13_FirstReadable ==
    (pc = "check_readme") =>
        LET readable == Candidates(fs, {"ok"})
        IN IF readable = <<>>
           THEN ret = NotFoundResult
           ELSE /\ ret.exists /\ ret.file = Head(readable)
                /\ ret.words = fs.readmes[Head(readable)].words

C13_Witness ==
    /\ pc = "check_readme"
    /\ fs.readmes["README.md"].st = "unreadable"
    /\ fs.readmes["README.txt"].st = "ok"
    /\ ret.exists /\ ret.file = "README.txt"

ExcludedDirs == {DotGit, NodeModules, PyCache}

\* the path has a directory component with one of the excluded names
InExcludedDir(path) ==
    \E name \in ExcludedDirs : \E i \in 1..Len(path) :
        /\ i = 1 \/ path[i - 1] = "/"
        /\ i + Len(name) <= Len(path)
        /\ SubSeq(path, i, i + Len(name) - 1) = name
        /\ path[i + Len(name)] = "/"

Includes(items, part) ==
    \A k \in 1..Len(part) : \E m \in 1..Len(items) : items[m] = part[k]

\* C14 as stated: no work item comes from a file inside an excluded
\* directory, and when an extension has at most 50 matching files outside
\* the excluded directories, every one of them is inspected: the work items
\* of each are in the result.
C14_PrunedBeforeCap ==
    (pc = "find_todos") =>
        /\ \A m \in 1..Len(ret) : ~InExcludedDir(ret[m].file)
        /\ \A x \in 1..Len(TodoExtensions) :
              LET outside == SelectSeq(RGlobExt(fs, TodoExtensions[x]),
                                       LAMBDA e : ~InExcludedDir(e.path))
              IN Len(outside) <= 50 =>
                    \A k \in 1..Len(outside) :
                        outside[k].readable => Includes(ret, FileItems(fs, outside[k]))

\* the directory with the i-th entry of its tree readable and empty
Emptied(d, i) ==
    [d EXCEPT !.tree[i] = [path |-> d.tree[i].path, readable |-> TRUE,
                           lines |-> <<>>, secrets |-> <<>>]]

Unreadable(d) == {i \in 1..Len(d.tree) : ~d.tree[i].readable}

\* C15: a file whose read fails contributes nothing to find_todos or to the
\* security scan and changes nothing else: the result is the one for the
\* same directory with that file empty, and it is a result, not an error.
C15_UnreadableFileAbsorbed ==
    /\ (pc = "find_todos") =>
          \A i \in Unreadable(fs) :
              /\ ret = find_todos(Emptied(fs, i))
              /\ \A m \in 1..Len(ret) : ret[m].file # FullPath(fs, fs.tree[i])
    /\ (pc = "security_scan") =>
          \A i \in Unreadable(fs) :
              /\ ret = security_scan(Emptied(fs, i))
              /\ \A m \in 1..Len(ret.issues) :
                    ret.issues[m].issue = "Potential"
                        => ret.issues[m].name # BaseName(fs.tree[i].path)

C15_Witness ==
    /\ pc = "find_todos"
    /\ \E i, j \in 1..Len(fs.tree) :
          /\ i < j
          /\ ~fs.tree[i].readable /\ fs.tree[i].lines # <<>>
          /\ EndsWith(fs.tree[i].path, <<".", "p", "y">>)
          /\ EndsWith(fs.tree[j].path, <<".", "p", "y">>)
          /\ fs.tree[j].readable
          /\ \E m \in 1..Len(ret) : ret[m].file = FullPath(fs, fs.tree[j])

HasBadge(report, badge) == \E i \in 1..Len(report.badges) : report.badges[i] = badge

\* C16: in every report grade A and the Project Excellence badge come
\* together, and with them a license file, a README score of at least 75 and
\* at most 5 work items; some report has Project Excellence without
\* Documentation Master, and some has it without Clean Code Champion.
C16_GradeAExcellence ==
    /\ Scanned =>
          /\ (ret.health_score.grade = "A") <=> HasBadge(ret, "Project Excellence")
          /\ (ret.health_score.grade = "A") =>
                /\ ret.license.exists
                /\ ret.readme.score >= 75
                /\ ret.todos.summary.total <= 5
    /\ (pc = "ready" /\ fs = EmptyDir) =>
          /\ \E d \in ProjectDirs :
                /\ HasBadge(scan(d, 0), "Project Excellence")
                /\ ~HasBadge(scan(d, 0), "Documentation Master")
          /\ \E d \in ProjectDirs :
                /\ HasBadge(scan(d, 0), "Project Excellence")
                /\ ~HasBadge(scan(d, 0), "Clean Code Champion")

C16_Witness ==
    /\ Scanned
    /\ ret.health_score.grade = "A" /\ HasBadge(ret, "Project Excellence")
    /\ ~HasBadge(ret, "Documentation Master")
    /\ ret.readme.score = 76 /\ ret.license.exists

====
